---- MODULE Spec2Model ----
(***************************************************************************)
(* Coffee-matching waiting pool (src/src/services/match_service.py, the    *)
(* join_coffee button of src/bot.py) and the timed-poll lifecycle          *)
(* (src/bot.py, src/database.py, src/scheduler.py).                        *)
(*                                                                         *)
(* Time is counted in whole minutes.  Collaborators (chat client,          *)
(* conversation provider, language model, cron client, match repository)   *)
(* are modelled by their effect on the state below and by an input that    *)
(* names the call that raises, if any.                                     *)
(***************************************************************************)
EXTENDS Integers, Sequences, FiniteSets, TLC

\* ------------------------------------------------------------------ bounds
MaxTime == 10
MaxMatches == 2
MaxCloseCalls == 2
MaxPolls == 1
MaxInflight == 2
\* clock ticks per second in the rate limiter's specification
TicksPerSecond == 2

\* ------------------------------------------------------- program constants
CooldownMinutes == 5
TimeoutDelay == 5
CloseDelay == 5

Users == {"A", "B"}
Voters == {"A", "B"}
\* the numbers of options a /oylama text gives, the indexes a vote click carries
CommandOptions == {1, 2}
\* the minutes and the numbers of options of the /oylama texts whose
\* validation is examined
CommandMinutes == {0, 1, 1440, 1441}
CommandOptionCounts == {1, 2, 10, 11}
VoteIndexes == {0, 1, 2}
\* the same for the polls that are closed with three voters
TallyVoters == {"A", "B", "C"}
TallyOptions == {2, 3}
TallyIndexes == {0, 1, 2, 3}
\* the settings the rate limiter is built with
LimiterMaxRequests == {1, 2}
LimiterWindows == {1, 2}
NoTime == 0 - 1
NoUser == "-"

VARIABLES
    now,                \* datetime.now(), in minutes
    waiting_pool,       \* self.waiting_pool: list of user ids
    last_request_time,  \* self.last_request_time: user -> time (NoTime: no key)
    pool_timeout_jobs,  \* self.pool_timeout_jobs: the users holding a job id
    timeout_jobs,       \* cron: scheduled coffee_timeout_<user> jobs
    close_jobs,         \* cron: scheduled close_match_<channel> jobs
    matches,            \* match_repo rows, match_id = index
    admin_channel,      \* ADMIN_CHANNEL_ID is configured
    polls,              \* table polls: rows, id = index
    votes,              \* table votes: rows
    poll_messages,      \* the interactive poll messages present in the channel
    poll_jobs,          \* _global_scheduler: scheduled close_<message_ts> jobs
    next_ts,            \* the ts the chat platform gives the next poll message
    voting,             \* handle_vote_action calls between their check and add_vote
    results,            \* the results messages posted, in order
    limiter,            \* the RateLimiter: max_requests, window_seconds, requests
    history,            \* per user: the times of the allowed calls and the number
                        \* of is_allowed calls, both since the user's last reset
    running,            \* the calls in progress whose steps interleave: who runs
                        \* what, the statement it is at, the value it holds
    tx,                 \* the use of transaction() in progress: where it is, the
                        \* connection, what was called on it, what it raised
    stats,              \* table user_challenge_stats: user -> row (counters)
    stats_calls,        \* per user: the calls begun, the increment_total calls
                        \* that have returned, the points of the add_points
                        \* calls that have returned, the statements that failed
    last                \* the last operation and what it returned

matchVars == <<now, waiting_pool, last_request_time, pool_timeout_jobs,
               timeout_jobs, close_jobs, matches, admin_channel>>

pollVars == <<polls, votes, poll_messages, poll_jobs, next_ts, voting, results>>

limiterVars == <<limiter, history>>

raceVars == <<running>>

repoVars == <<tx, stats, stats_calls>>

vars == <<matchVars, pollVars, limiterVars, raceVars, repoVars, last>>

\* what the last operation was: its caller, the other user it touched (the popped
\* partner, the inviter), the match row it touched, and what it returned
Op(op, user, partner, match, result) ==
    [op |-> op, user |-> user, partner |-> partner, match |-> match, opt |-> 0,
     minutes |-> 0, result |-> result]

\* the same for the poll operations: the poll message, the option index
PollOp(op, user, ts, opt, result) ==
    [op |-> op, user |-> user, partner |-> NoUser, match |-> ts, opt |-> opt,
     minutes |-> 0, result |-> result]

\* the same for /oylama: the minutes and the number of options of its text
CommandOp(user, ts, minutes, nopts, result) ==
    [op |-> "create", user |-> user, partner |-> NoUser, match |-> ts,
     opt |-> nopts, minutes |-> minutes, result |-> result]

\* ------------------------------------------------------------ match service

InPool(u) == \E i \in 1..Len(waiting_pool) : waiting_pool[i] = u

\* elapsed = datetime.now() - self.last_request_time[user_id]
Elapsed(u) == now - last_request_time[u]

Remaining_floor(elapsedTicks) ==
    (5 * 60 * TicksPerSecond - elapsedTicks) \div (60 * TicksPerSecond)

\* remaining = 5 - int(elapsed.total_seconds() / 60), the elapsed time given in
\* ticks of 1/TicksPerSecond second
Remaining(elapsedTicks) == 5 - (elapsedTicks \div (60 * TicksPerSecond))

can_request_coffee_le(u) ==
    IF last_request_time[u] # NoTime /\ Elapsed(u) <= CooldownMinutes
    THEN "cooldown"
    ELSE IF InPool(u) THEN "already" ELSE "ok"

can_request_coffee_nopool(u) ==
    IF last_request_time[u] # NoTime /\ Elapsed(u) < CooldownMinutes
    THEN "cooldown"
    ELSE "ok"

can_request_coffee_pool_first(u) ==
    IF InPool(u) THEN "already"
    ELSE IF last_request_time[u] # NoTime /\ Elapsed(u) < CooldownMinutes
    THEN "cooldown"
    ELSE "ok"

can_request_coffee(u) ==
    IF last_request_time[u] # NoTime /\ Elapsed(u) < CooldownMinutes
    THEN "cooldown"
    ELSE IF InPool(u) THEN "already" ELSE "ok"

\* list.remove(x): drops the first occurrence
RECURSIVE ListRemove(_, _)
ListRemove(s, x) ==
    IF s = <<>> THEN <<>>
    ELSE IF Head(s) = x THEN Tail(s)
    ELSE <<Head(s)>> \o ListRemove(Tail(s), x)

JobsWithout(jobs, u) == {j \in jobs : j.user # u}

\* cron.add_once_job(func, delay_minutes, job_id, args)
add_once_job(jobs, u, delay) ==
    JobsWithout(jobs, u) \cup {[user |-> u, run_at |-> now + delay]}

\* cron.remove_job(job_id)
remove_job(jobs, u) == JobsWithout(jobs, u)

NewMatch(u1, u2) ==
    [user1 |-> u1, user2 |-> u2, status |-> "active", summary |-> "none",
     calls |-> 0, updates |-> 0, reports |-> 0, notices |-> 0, conv |-> "open"]

StartFail == {"none", "open_conversation", "create", "quick_ask",
              "post_message", "add_once_job"}
RequestFail == StartFail \cup {"remove_job"}

\* start_match(user_id1, user_id2): the rows and the closure jobs it leaves
\* when the call named by fail raises (CemilBotError is raised to the caller).
start_match_rows(u1, u2, fail) ==
    IF fail \in {"open_conversation", "create"} THEN matches
    ELSE Append(matches, NewMatch(u1, u2))

start_match_jobs(fail) ==
    IF fail = "none"
    THEN close_jobs \cup {[match |-> Len(matches) + 1, run_at |-> now + CloseDelay]}
    ELSE close_jobs

\* the pool left by an accepted or rejected request
request_pool_always_enqueue(u, verdict) ==
    IF verdict = "ok" /\ waiting_pool # <<>> THEN Tail(waiting_pool)
    ELSE Append(waiting_pool, u)

request_pool_never_pop(u, verdict) ==
    IF verdict # "ok" THEN waiting_pool ELSE Append(waiting_pool, u)

request_pool(u, verdict) ==
    IF verdict # "ok" THEN waiting_pool
    ELSE IF waiting_pool # <<>> THEN Tail(waiting_pool)
    ELSE Append(waiting_pool, u)

request_time_always(u, verdict) == [last_request_time EXCEPT ![u] = now]

\* lines 61-66: the last-request times left by an accepted or rejected request
request_time(u, verdict) ==
    IF verdict # "ok" THEN last_request_time
    ELSE [last_request_time EXCEPT ![u] = now]

\* lines 74-76: cancel the partner's timeout job and drop the handle
cancel_partner_keep(partner) ==
    /\ timeout_jobs' = timeout_jobs
    /\ pool_timeout_jobs' = pool_timeout_jobs

cancel_partner(partner) ==
    IF partner \in pool_timeout_jobs
    THEN /\ timeout_jobs' = remove_job(timeout_jobs, partner)
         /\ pool_timeout_jobs' = pool_timeout_jobs \ {partner}
    ELSE /\ UNCHANGED <<timeout_jobs, pool_timeout_jobs>>

\* request_coffee(user_id, channel_id); fail names the collaborator call that
\* raises, if the call is reached
RequestCoffee(u, fail) ==
    LET verdict == can_request_coffee(u) IN
    /\ waiting_pool' = request_pool(u, verdict)
    /\ last_request_time' = request_time(u, verdict)
    /\ IF verdict # "ok" THEN
          /\ last' = Op("request", u, NoUser, 0, verdict)
          /\ UNCHANGED <<pool_timeout_jobs, timeout_jobs, close_jobs, matches>>
       ELSE
          /\ IF waiting_pool # <<>> THEN
                LET partner == Head(waiting_pool) IN
                /\ Len(matches) < MaxMatches
                /\ IF fail = "remove_job" /\ partner \in pool_timeout_jobs THEN
                      /\ UNCHANGED <<pool_timeout_jobs, timeout_jobs, close_jobs,
                                     matches>>
                      /\ last' = Op("request", u, partner, 0, "error")
                   ELSE
                      /\ cancel_partner(partner)
                      /\ matches' = start_match_rows(u, partner, fail)
                      /\ close_jobs' = start_match_jobs(fail)
                      /\ last' = Op("request", u, partner,
                                    IF Len(matches') > Len(matches)
                                    THEN Len(matches') ELSE 0,
                                    IF fail \in StartFail \ {"none"}
                                    THEN "error" ELSE "matched")
             ELSE
                /\ UNCHANGED <<close_jobs, matches>>
                /\ IF fail = "add_once_job" THEN
                      /\ UNCHANGED <<pool_timeout_jobs, timeout_jobs>>
                      /\ last' = Op("request", u, NoUser, 0, "error")
                   ELSE
                      /\ timeout_jobs' = add_once_job(timeout_jobs, u, TimeoutDelay)
                      /\ pool_timeout_jobs' = pool_timeout_jobs \cup {u}
                      /\ last' = Op("request", u, NoUser, 0, "waiting")
    /\ UNCHANGED <<now, admin_channel, pollVars, limiterVars, raceVars, repoVars>>

timeout_user_abort(u, notifyOk, op) ==
    /\ waiting_pool' = IF InPool(u) THEN ListRemove(waiting_pool, u) ELSE waiting_pool
    /\ pool_timeout_jobs' = IF InPool(u) /\ ~notifyOk THEN pool_timeout_jobs
                            ELSE pool_timeout_jobs \ {u}
    /\ last' = Op(op, u, NoUser, 0,
                  IF InPool(u)
                  THEN (IF notifyOk THEN "expired_notified" ELSE "expired_silent")
                  ELSE "noop")

timeout_user_stay(u, notifyOk, op) ==
    /\ UNCHANGED waiting_pool
    /\ pool_timeout_jobs' = pool_timeout_jobs \ {u}
    /\ last' = Op(op, u, NoUser, 0,
                  IF InPool(u)
                  THEN (IF notifyOk THEN "expired_notified" ELSE "expired_silent")
                  ELSE "noop")

\* _timeout_user(user_id)
timeout_user(u, notifyOk, op) ==
    /\ waiting_pool' = IF InPool(u) THEN ListRemove(waiting_pool, u) ELSE waiting_pool
    /\ pool_timeout_jobs' = pool_timeout_jobs \ {u}
    /\ last' = Op(op, u, NoUser, 0,
                  IF InPool(u)
                  THEN (IF notifyOk THEN "expired_notified" ELSE "expired_silent")
                  ELSE "noop")

\* the scheduler runs the coffee_timeout_<user> job when it is due
TimeoutFires(u, notifyOk) ==
    /\ \E j \in timeout_jobs : j.user = u /\ j.run_at <= now
    /\ timeout_jobs' = JobsWithout(timeout_jobs, u)
    /\ timeout_user(u, notifyOk, "timeout")
    /\ UNCHANGED <<now, last_request_time, close_jobs, matches, admin_channel,
                   pollVars, limiterVars, raceVars, repoVars>>

\* the timeout callback of the partner a request has just popped runs all the
\* same (it was handed to a worker before remove_job, or a test fires it)
LateTimeout(u, notifyOk) ==
    /\ last.op = "request" /\ last.partner = u
    /\ ~ \E j \in timeout_jobs : j.user = u
    /\ timeout_user(u, notifyOk, "late_timeout")
    /\ UNCHANGED <<now, last_request_time, timeout_jobs, close_jobs, matches,
                   admin_channel, pollVars, limiterVars, raceVars, repoVars>>

\* handle_join_coffee(ack, body, client): user2 clicks the button of user1's
\* invitation; ok: no call of the try block raises
JoinCoffee(user1_id, user2_id, ok) ==
    /\ last' = Op("join", user2_id, user1_id, 0,
                  IF user1_id = user2_id THEN "self"
                  ELSE IF ok THEN "paired" ELSE "error")
    /\ UNCHANGED <<matchVars, pollVars, limiterVars, raceVars, repoVars>>

Tick ==
    /\ now < MaxTime
    /\ now' = now + 1
    /\ last' = Op("tick", NoUser, NoUser, 0, "none")
    /\ UNCHANGED <<waiting_pool, last_request_time, pool_timeout_jobs, timeout_jobs,
                   close_jobs, matches, admin_channel, pollVars, limiterVars, raceVars, repoVars>>

NoRow == 0 - 1

\* no transaction is in use, the statistics table is empty
NoRepo ==
    /\ tx = [pc |-> "idle", conn |-> "none", body |-> "none", failed |-> "none",
             commits |-> 0, rollbacks |-> 0, closes |-> 0, raised |-> "none",
             uses |-> 0]
    /\ stats = [u \in Users |-> [total_challenges |-> NoRow, total_points |-> NoRow]]
    /\ stats_calls = [u \in Users |->
                         [begun |-> 0, increments |-> 0, points |-> 0, failures |-> 0]]

\* the poll tables are empty, nothing is posted or scheduled
NoPolls ==
    /\ polls = <<>>
    /\ votes = {}
    /\ poll_messages = {}
    /\ poll_jobs = {}
    /\ next_ts = 1
    /\ voting = {}
    /\ results = <<>>

\* the rate limiter as get_rate_limiter() builds it by default, unused
NoLimiter ==
    /\ limiter = [max_requests |-> 10, window_seconds |-> 60,
                  requests |-> [u \in {} |-> <<>>]]
    /\ history = [u \in Users |-> [granted |-> <<>>, calls |-> 0]]

MatchInit ==
    /\ running = {}
    /\ NoRepo
    /\ NoPolls
    /\ NoLimiter
    /\ now = 0
    /\ waiting_pool = <<>>
    /\ last_request_time = [u \in Users |-> NoTime]
    /\ pool_timeout_jobs = {}
    /\ timeout_jobs = {}
    /\ close_jobs = {}
    /\ matches = <<>>
    /\ admin_channel = TRUE
    /\ last = Op("init", NoUser, NoUser, 0, "none")

MatchNext ==
    \/ \E u \in Users, fail \in RequestFail : RequestCoffee(u, fail)
    \/ \E u \in Users, ok \in BOOLEAN : TimeoutFires(u, ok)
    \/ \E u \in Users, ok \in BOOLEAN : LateTimeout(u, ok)
    \/ \E u1 \in Users, u2 \in Users, ok \in BOOLEAN : JoinCoffee(u1, u2, ok)
    \/ Tick

MatchSpec == MatchInit /\ [][MatchNext]_vars

\* time passes, and the scheduler runs every coffee_timeout_<user> job that is due
MatchFairness ==
    /\ WF_vars(Tick)
    /\ \A u \in Users : WF_vars(\E ok \in BOOLEAN : TimeoutFires(u, ok))

FairMatchSpec == MatchSpec /\ MatchFairness

\* ------------------------------------------------------------- match closure

CloseFail == {"none", "get_history", "quick_ask", "update", "admin", "notice",
              "close_conversation"}

CloseStepNo_report_first(step) ==
    CASE step = "get_history" -> 1
      [] step = "quick_ask" -> 2
      [] step = "admin" -> 3
      [] step = "update" -> 4
      [] step = "close_conversation" -> 5
      [] step = "notice" -> 6
      [] OTHER -> 7

\* the position of each collaborator call in close_match
CloseStepNo(step) ==
    CASE step = "get_history" -> 1
      [] step = "quick_ask" -> 2
      [] step = "update" -> 3
      [] step = "admin" -> 4
      [] step = "notice" -> 5
      [] step = "close_conversation" -> 6
      [] OTHER -> 7

\* the call that raises among those close_match makes: quick_ask is called only
\* when there are human messages, the admin report only with an admin channel
CloseRaises(hasMessages, fail) ==
    IF (fail = "quick_ask" /\ ~hasMessages) \/ (fail = "admin" /\ ~admin_channel)
    THEN "none" ELSE fail

\* close_match(channel_id, match_id): the row after the call; every exception is
\* caught and logged at the end of the method
close_match(row, hasMessages, fail) ==
    LET raises == CloseRaises(hasMessages, fail)
        done(step) == CloseStepNo(step) < CloseStepNo(raises)
    IN [row EXCEPT
          !.calls = @ + 1,
          !.status = IF done("update") THEN "closed" ELSE @,
          !.summary = IF done("update")
                      THEN (IF hasMessages THEN "llm" ELSE "sentinel") ELSE @,
          !.updates = IF done("update") THEN @ + 1 ELSE @,
          !.reports = IF admin_channel /\ done("admin") THEN @ + 1 ELSE @,
          !.notices = IF done("notice") THEN @ + 1 ELSE @,
          !.conv = IF done("close_conversation") THEN "closed" ELSE @]

CloseResult(hasMessages, fail) ==
    IF CloseRaises(hasMessages, fail) = "none" THEN "closed" ELSE "logged_error"

\* the scheduler runs the close_match_<channel> job when it is due
CloseMatchJob(m, hasMessages, fail) ==
    /\ \E j \in close_jobs : j.match = m /\ j.run_at <= now
    /\ close_jobs' = {j \in close_jobs : j.match # m}
    /\ matches' = [matches EXCEPT ![m] = close_match(@, hasMessages, fail)]
    /\ last' = Op("close_job", NoUser, NoUser, m, CloseResult(hasMessages, fail))
    /\ UNCHANGED <<now, waiting_pool, last_request_time, pool_timeout_jobs,
                   timeout_jobs, admin_channel, pollVars, limiterVars, raceVars, repoVars>>

\* close_match called for a match by anything but its job (a manual trigger)
CloseMatchCall(m, hasMessages, fail) ==
    /\ m \in 1..Len(matches)
    /\ matches[m].calls < MaxCloseCalls
    /\ matches' = [matches EXCEPT ![m] = close_match(@, hasMessages, fail)]
    /\ last' = Op("close_call", NoUser, NoUser, m, CloseResult(hasMessages, fail))
    /\ UNCHANGED <<now, waiting_pool, last_request_time, pool_timeout_jobs,
                   timeout_jobs, close_jobs, admin_channel, pollVars, limiterVars, raceVars, repoVars>>

\* a match has just been started by request_coffee: the requester and the popped
\* partner both asked at minute 0; the closure job is there unless start_match
\* raised after the row was persisted
CloseInit ==
    /\ running = {}
    /\ NoRepo
    /\ NoPolls
    /\ NoLimiter
    /\ now = 0
    /\ waiting_pool = <<>>
    /\ last_request_time = [u \in Users |-> 0]
    /\ pool_timeout_jobs = {}
    /\ timeout_jobs = {}
    /\ \E u1 \in Users, u2 \in Users :
          /\ u1 # u2
          /\ matches = <<NewMatch(u1, u2)>>
          /\ \E fail \in {"none", "quick_ask"} :
                /\ close_jobs = IF fail = "none"
                                THEN {[match |-> 1, run_at |-> CloseDelay]} ELSE {}
                /\ last = Op("request", u1, u2, 1,
                             IF fail = "none" THEN "matched" ELSE "error")
    /\ admin_channel \in BOOLEAN

CloseNext ==
    \/ \E m \in 1..Len(matches), h \in BOOLEAN, fail \in CloseFail :
          CloseMatchJob(m, h, fail)
    \/ \E m \in 1..Len(matches), h \in BOOLEAN, fail \in CloseFail :
          CloseMatchCall(m, h, fail)
    \/ Tick

CloseSpec == CloseInit /\ [][CloseNext]_vars

\* --------------------------------------------------------------------- polls

\* database.get_poll_by_ts(message_ts): the id of the row, 0 when there is none
get_poll_by_ts(ts) ==
    IF \E i \in 1..Len(polls) : polls[i].message_ts = ts
    THEN CHOOSE i \in 1..Len(polls) :
            /\ polls[i].message_ts = ts
            /\ \A k \in 1..(i - 1) : polls[k].message_ts # ts
    ELSE 0

\* database.create_poll(...): INSERT INTO polls, is_active DEFAULT 1
create_poll(ts, nopts) ==
    Append(polls, [message_ts |-> ts, nopts |-> nopts, is_active |-> 1])

\* database.close_poll(poll_id): UPDATE polls SET is_active = 0 WHERE id = ?
close_poll(poll_id) == [polls EXCEPT ![poll_id].is_active = 0]

is_active_stale(poll_id) == 1

\* the is_active column of the row get_poll_by_ts returned, as the handlers
\* unpack it before their "if not is_active" guard
is_active(poll_id) == polls[poll_id].is_active

VoteRow(poll_id, user_id, option_index) ==
    [poll_id |-> poll_id, user_id |-> user_id, option_index |-> option_index]

add_vote_insert(poll_id, user_id, option_index) ==
    votes \cup {VoteRow(poll_id, user_id, option_index)}

\* database.add_vote: INSERT OR REPLACE under PRIMARY KEY (poll_id, user_id)
add_vote(poll_id, user_id, option_index) ==
    {v \in votes : ~(v.poll_id = poll_id /\ v.user_id = user_id)}
        \cup {VoteRow(poll_id, user_id, option_index)}

has_user_voted_never(poll_id, user_id) == FALSE

\* database.has_user_voted: SELECT 1 FROM votes WHERE poll_id = ? AND user_id = ?
has_user_voted(poll_id, user_id) ==
    \E v \in votes : v.poll_id = poll_id /\ v.user_id = user_id

\* database.get_poll_results: SELECT option_index, COUNT(*) ... GROUP BY
\* option_index, read with results.get(i, 0)
get_poll_results(poll_id, i) ==
    Cardinality({v \in votes : v.poll_id = poll_id /\ v.option_index = i})

\* close_poll_task, lines 92-102: the loop over enumerate(options); acc holds
\* max_votes and winners, i is the next option index
tally_step_last_wins(acc, count, i) ==
    IF count >= acc.max_votes
    THEN [max_votes |-> count, winners |-> <<i>>]
    ELSE acc

tally_step(acc, count, i) ==
    IF count > acc.max_votes
    THEN [max_votes |-> count, winners |-> <<i>>]
    ELSE IF count = acc.max_votes /\ count > 0
    THEN [acc EXCEPT !.winners = Append(@, i)]
    ELSE acc

RECURSIVE tally_loop(_, _, _)
tally_loop(counts, i, acc) ==
    IF i >= Len(counts) THEN acc
    ELSE tally_loop(counts, i + 1, tally_step(acc, counts[i + 1], i))

has_winner_nonneg(max_votes) == max_votes >= 0

\* line 104: if max_votes > 0
has_winner(max_votes) == max_votes > 0

\* the results message of close_poll_task for the counts read
results_message(ts, counts) ==
    LET acc == tally_loop(counts, 0, [max_votes |-> 0 - 1, winners |-> <<>>])
    IN IF has_winner(acc.max_votes)
       THEN [ts |-> ts, counts |-> counts, kind |-> "winner",
             winners |-> acc.winners]
       ELSE [ts |-> ts, counts |-> counts, kind |-> "no_votes",
             winners |-> <<>>]

\* what client.users_info gives for the caller of /oylama: the flags of the
\* user, a response with ok false, or an exception
AdminLookups == {"admin", "owner", "member", "not_ok", "raises"}

is_admin_fail_open(lookup) == lookup \in {"admin", "owner", "raises"}

\* is_admin(user_id, client): is_admin or is_owner of an ok response; False
\* when the response is not ok or the lookup raises
is_admin(lookup) == lookup \in {"admin", "owner"}

\* handle_poll_command (/oylama): admin is what is_admin returns, minutes and
\* nopts the duration and the number of options in the text, fail the call that
\* fails
CreateFail == {"none", "chat_postMessage", "create_poll"}

handle_poll_command(user, admin, minutes, nopts, fail) ==
    /\ next_ts <= MaxPolls
    /\ IF ~admin THEN
          /\ last' = CommandOp(user, 0, minutes, nopts, "not_admin")
          /\ UNCHANGED pollVars
       ELSE IF nopts < 2 THEN
          /\ last' = CommandOp(user, 0, minutes, nopts, "bad_format")
          /\ UNCHANGED pollVars
       ELSE IF fail = "chat_postMessage" THEN
          /\ last' = CommandOp(user, 0, minutes, nopts, "failed")
          /\ UNCHANGED pollVars
       ELSE
          /\ poll_messages' = poll_messages \cup {next_ts}
          /\ next_ts' = next_ts + 1
          /\ polls' = IF fail = "create_poll" THEN polls
                      ELSE create_poll(next_ts, nopts)
          /\ poll_jobs' = poll_jobs \cup {next_ts}
          /\ last' = CommandOp(user, next_ts, minutes, nopts, "started")
          /\ UNCHANGED <<votes, voting, results>>
    /\ UNCHANGED <<matchVars, limiterVars, raceVars, repoVars>>

\* a /oylama of one minute, as the voting interleavings use it
CreatePoll(user, admin, nopts, fail) ==
    handle_poll_command(user, admin, 1, nopts, fail)

\* handle_vote_action up to has_user_voted (lines 374-392)
VoteBegin(user, ts, option_index) ==
    /\ ts < next_ts
    /\ Cardinality(voting) < MaxInflight
    /\ LET poll_id == get_poll_by_ts(ts) IN
       IF poll_id = 0 THEN
          /\ last' = PollOp("vote", user, ts, option_index, "ignored")
          /\ UNCHANGED voting
       ELSE IF is_active(poll_id) = 0 THEN
          /\ last' = PollOp("vote", user, ts, option_index, "ended")
          /\ UNCHANGED voting
       ELSE IF has_user_voted(poll_id, user) THEN
          /\ last' = PollOp("vote", user, ts, option_index, "already")
          /\ UNCHANGED voting
       ELSE
          /\ last' = PollOp("vote", user, ts, option_index, "checked")
          /\ voting' = voting \cup
                {[user |-> user, ts |-> ts, poll_id |-> poll_id,
                  nopts |-> polls[poll_id].nopts, option_index |-> option_index]}
    /\ UNCHANGED <<polls, votes, poll_messages, poll_jobs, next_ts, results>>
    /\ UNCHANGED <<matchVars, limiterVars, raceVars, repoVars>>

\* handle_vote_action from add_vote on (lines 394-402): INSERT OR REPLACE either
\* inserts the row or replaces the one a concurrent click wrote meanwhile;
\* options[option_index] raises IndexError for an index past the end, after the
\* row is written
VoteWrite(v) ==
    /\ v \in voting
    /\ voting' = voting \ {v}
    /\ votes' = add_vote(v.poll_id, v.user, v.option_index)
    /\ last' = PollOp("vote_write", v.user, v.ts, v.option_index,
                      IF v.option_index >= v.nopts THEN "written_then_raised"
                      ELSE IF \E r \in votes : r.poll_id = v.poll_id /\ r.user_id = v.user
                      THEN "replaced" ELSE "recorded")
    /\ UNCHANGED <<polls, poll_messages, poll_jobs, next_ts, results>>
    /\ UNCHANGED <<matchVars, limiterVars, raceVars, repoVars>>

PostFail == {"none", "chat_delete", "chat_postMessage", "both"}

\* lines 110-115: chat_delete inside its own try block
message_deleted(fail) == fail \notin {"chat_delete", "both"}

results_posted_abort(fail) == fail = "none"

\* lines 117-130: chat_postMessage inside its own try block, reached whatever
\* chat_delete did
results_posted(fail) == fail \notin {"chat_postMessage", "both"}

\* close_poll_task(app, message_ts)
close_poll_task(ts, fail, op) ==
    LET poll_id == get_poll_by_ts(ts) IN
    /\ IF poll_id = 0 THEN
          /\ last' = PollOp(op, NoUser, ts, 0, "no_poll")
          /\ UNCHANGED <<polls, poll_messages, results>>
       ELSE IF is_active(poll_id) = 0 THEN
          /\ last' = PollOp(op, NoUser, ts, 0, "already_closed")
          /\ UNCHANGED <<polls, poll_messages, results>>
       ELSE
          LET counts == [i \in 1..polls[poll_id].nopts |->
                            get_poll_results(poll_id, i - 1)]
          IN /\ polls' = close_poll(poll_id)
             /\ poll_messages' = IF message_deleted(fail)
                                 THEN poll_messages \ {ts} ELSE poll_messages
             /\ results' = IF results_posted(fail)
                           THEN Append(results, results_message(ts, counts))
                           ELSE results
             /\ last' = PollOp(op, NoUser, ts, 0,
                               IF results_posted(fail)
                               THEN "closed" ELSE "closed_unannounced")
    /\ UNCHANGED <<votes, next_ts, voting>>
    /\ UNCHANGED <<matchVars, limiterVars, raceVars, repoVars>>

\* the scheduler runs the close_<message_ts> job
ClosePollJob(ts, fail) ==
    /\ ts \in poll_jobs
    /\ poll_jobs' = poll_jobs \ {ts}
    /\ close_poll_task(ts, fail, "close_poll_job")

\* close_poll_task called again for the same message (a manual trigger)
ClosePollCall(ts, fail) ==
    /\ ts < next_ts
    /\ UNCHANGED poll_jobs
    /\ close_poll_task(ts, fail, "close_poll_call")

PollInit ==
    /\ running = {}
    /\ NoRepo
    /\ NoPolls
    /\ NoLimiter
    /\ now = 0
    /\ waiting_pool = <<>>
    /\ last_request_time = [u \in Users |-> NoTime]
    /\ pool_timeout_jobs = {}
    /\ timeout_jobs = {}
    /\ close_jobs = {}
    /\ matches = <<>>
    /\ admin_channel = TRUE
    /\ last = Op("init", NoUser, NoUser, 0, "none")

PollNext ==
    \/ \E u \in Voters, admin \in BOOLEAN, n \in CommandOptions, fail \in CreateFail :
          CreatePoll(u, admin, n, fail)
    \/ \E u \in Voters, ts \in 1..MaxPolls, i \in VoteIndexes : VoteBegin(u, ts, i)
    \/ \E v \in voting : VoteWrite(v)
    \/ \E ts \in 1..MaxPolls, fail \in PostFail : ClosePollJob(ts, fail)
    \/ \E ts \in 1..MaxPolls, fail \in PostFail : ClosePollCall(ts, fail)

PollSpec == PollInit /\ [][PollNext]_vars

\* /oylama texts at and beyond the limits of the duration and of the number
\* of options, and the closure job of the poll they start
CommandNext ==
    \/ \E u \in Voters, lookup \in AdminLookups, minutes \in CommandMinutes,
          n \in CommandOptionCounts, fail \in CreateFail :
          handle_poll_command(u, is_admin(lookup), minutes, n, fail)
    \/ \E ts \in 1..MaxPolls, fail \in PostFail : ClosePollJob(ts, fail)

CommandSpec == PollInit /\ [][CommandNext]_vars

\* one open poll whose message is posted and whose closure job is scheduled,
\* with any table of votes the handlers can have written for it: at most one
\* row per user, the index never validated against the options
TallyInit ==
    /\ running = {}
    /\ NoRepo
    /\ NoLimiter
    /\ now = 0
    /\ waiting_pool = <<>>
    /\ last_request_time = [u \in Users |-> NoTime]
    /\ pool_timeout_jobs = {}
    /\ timeout_jobs = {}
    /\ close_jobs = {}
    /\ matches = <<>>
    /\ admin_channel = TRUE
    /\ \E nopts \in TallyOptions :
          polls = <<[message_ts |-> 1, nopts |-> nopts, is_active |-> 1]>>
    /\ \E f \in [TallyVoters -> TallyIndexes \cup {0 - 1}] :
          votes = {VoteRow(1, u, f[u]) : u \in {x \in TallyVoters : f[x] >= 0}}
    /\ poll_messages = {1}
    /\ poll_jobs = {1}
    /\ next_ts = 2
    /\ voting = {}
    /\ results = <<>>
    /\ last = PollOp("create", "A", 1, polls[1].nopts, "started")

TallyNext ==
    \/ \E ts \in 1..MaxPolls, fail \in PostFail : ClosePollJob(ts, fail)
    \/ \E ts \in 1..MaxPolls, fail \in PostFail : ClosePollCall(ts, fail)

TallySpec == TallyInit /\ [][TallyNext]_vars

\* -------------------------------------------------------------- rate limiter
\* In LimiterSpec the clock now counts ticks of 1/TicksPerSecond second.

LimiterOp(op, user, wait, result) ==
    [op |-> op, user |-> user, partner |-> NoUser, match |-> 0, opt |-> wait,
     minutes |-> 0, result |-> result]

\* defaultdict(list) without keys
EmptyDict == [u \in {} |-> <<>>]

\* self.requests[user_id] of the defaultdict
user_requests(lim, user_id) ==
    IF user_id \in DOMAIN lim.requests THEN lim.requests[user_id] ELSE <<>>

\* timedelta(seconds=self.window_seconds), in ticks
window(lim) == lim.window_seconds * TicksPerSecond

prune_ge(reqs, cutoff_time) ==
    LET keep(req_time) == req_time >= cutoff_time IN SelectSeq(reqs, keep)

\* [req_time for req_time in user_requests if req_time > cutoff_time]
prune(reqs, cutoff_time) ==
    LET keep(req_time) == req_time > cutoff_time IN SelectSeq(reqs, keep)

SeqMin(s) == CHOOSE m \in {s[k] : k \in 1..Len(s)} : \A k \in 1..Len(s) : m <= s[k]

SeqMaxOf(s) == CHOOSE m \in {s[k] : k \in 1..Len(s)} : \A k \in 1..Len(s) : s[k] <= m

\* int(x): truncation toward zero of a number of ticks to whole seconds
IntSeconds(ticks) ==
    IF ticks >= 0 THEN ticks \div TicksPerSecond
    ELSE 0 - ((0 - ticks) \div TicksPerSecond)

\* lines 43-44: oldest_request and wait_seconds
wait_seconds(lim, reqs, t) ==
    LET oldest_request == IF reqs # <<>> THEN SeqMin(reqs) ELSE t
    IN IntSeconds(oldest_request + window(lim) - t)

\* the limiter with the list of user_id replaced (the key is created by the
\* defaultdict read of line 34)
with_requests(lim, user_id, reqs) ==
    [lim EXCEPT !.requests =
        [v \in (DOMAIN lim.requests) \cup {user_id} |->
            IF v = user_id THEN reqs ELSE lim.requests[v]]]

is_allowed_record_rejected(lim, user_id, t) ==
    LET kept == prune(user_requests(lim, user_id), t - window(lim))
    IN IF Len(kept) >= lim.max_requests
       THEN [allowed |-> FALSE, wait |-> wait_seconds(lim, kept, t),
             limiter |-> with_requests(lim, user_id, Append(kept, t))]
       ELSE [allowed |-> TRUE, wait |-> 0,
             limiter |-> with_requests(lim, user_id, Append(kept, t))]

\* RateLimiter.is_allowed(user_id) at time t: the answer and the limiter after it
is_allowed(lim, user_id, t) ==
    LET kept == prune(user_requests(lim, user_id), t - window(lim))
    IN IF Len(kept) >= lim.max_requests
       THEN [allowed |-> FALSE, wait |-> wait_seconds(lim, kept, t),
             limiter |-> with_requests(lim, user_id, kept)]
       ELSE [allowed |-> TRUE, wait |-> 0,
             limiter |-> with_requests(lim, user_id, Append(kept, t))]

reset_all(lim, user_id) == [lim EXCEPT !.requests = EmptyDict]

reset_keep(lim, user_id) == lim

\* RateLimiter.reset(user_id)
reset(lim, user_id) ==
    [lim EXCEPT !.requests =
        [v \in (DOMAIN lim.requests) \ {user_id} |-> lim.requests[v]]]

\* RateLimiter.cleanup_old_entries() at time t
cleanup_old_entries(lim, t) ==
    LET cutoff_time == t - window(lim) * 2
        users_to_remove == {v \in DOMAIN lim.requests :
                               /\ lim.requests[v] # <<>>
                               /\ SeqMaxOf(lim.requests[v]) < cutoff_time}
    IN [lim EXCEPT !.requests =
           [v \in (DOMAIN lim.requests) \ users_to_remove |-> lim.requests[v]]]

IsAllowed(user_id) ==
    LET r == is_allowed(limiter, user_id, now) IN
    /\ limiter' = r.limiter
    /\ history' = [history EXCEPT
                      ![user_id].granted = IF r.allowed THEN Append(@, now) ELSE @,
                      ![user_id].calls = IF @ < limiter.max_requests
                                         THEN @ + 1 ELSE @]
    /\ last' = LimiterOp("is_allowed", user_id, r.wait,
                         IF r.allowed THEN "allowed" ELSE "rejected")
    /\ UNCHANGED <<matchVars, pollVars, raceVars, repoVars>>

Reset(user_id) ==
    /\ limiter' = reset(limiter, user_id)
    /\ history' = [history EXCEPT ![user_id] = [granted |-> <<>>, calls |-> 0]]
    /\ last' = LimiterOp("reset", user_id, Len(user_requests(limiter, user_id)),
                         IF user_id \in DOMAIN limiter.requests
                         THEN "deleted" ELSE "none")
    /\ UNCHANGED <<matchVars, pollVars, raceVars, repoVars>>

Cleanup ==
    /\ limiter' = cleanup_old_entries(limiter, now)
    /\ last' = LimiterOp("cleanup", NoUser, 0, "none")
    /\ UNCHANGED <<matchVars, pollVars, history, raceVars, repoVars>>

\* one tick passes; the allowed calls that are window_seconds old are no
\* longer within the preceding window
LimiterTick ==
    /\ now < MaxTime
    /\ now' = now + 1
    /\ history' = [u \in Users |->
                      [history[u] EXCEPT
                          !.granted = LET recent(g) == now' - g < window(limiter)
                                      IN SelectSeq(@, recent)]]
    /\ last' = Op("tick", NoUser, NoUser, 0, "none")
    /\ UNCHANGED <<waiting_pool, last_request_time, pool_timeout_jobs, timeout_jobs,
                   close_jobs, matches, admin_channel, pollVars, limiter, raceVars, repoVars>>

LimiterInit ==
    /\ running = {}
    /\ NoRepo
    /\ NoPolls
    /\ now = 0
    /\ waiting_pool = <<>>
    /\ last_request_time = [u \in Users |-> NoTime]
    /\ pool_timeout_jobs = {}
    /\ timeout_jobs = {}
    /\ close_jobs = {}
    /\ matches = <<>>
    /\ admin_channel = TRUE
    /\ \E m \in LimiterMaxRequests, w \in LimiterWindows :
          limiter = [max_requests |-> m, window_seconds |-> w,
                     requests |-> EmptyDict]
    /\ history = [u \in Users |-> [granted |-> <<>>, calls |-> 0]]
    /\ last = Op("init", NoUser, NoUser, 0, "none")

LimiterNext ==
    \/ \E u \in Users : IsAllowed(u)
    \/ \E u \in Users : Reset(u)
    \/ Cleanup
    \/ LimiterTick

LimiterSpec == LimiterInit /\ [][LimiterNext]_vars

\* --------------------------------------- request and timeout, step by step
\* request_coffee runs in a handler, _timeout_user on the scheduler's worker;
\* no lock is taken, so the statements of the two calls interleave.

\* at most this many request_coffee calls are in progress at once
MaxRunning == 1

Run(op, who, pc, arg) == [op |-> op, who |-> who, pc |-> pc, arg |-> arg]

RaceErrors == {"IndexError", "ValueError", "KeyError"}

RaceFrame == <<now, admin_channel, pollVars, limiterVars, repoVars>>

\* request_coffee, lines 61-69: the checks, the request time, the test of the pool
RequestBegin(u) ==
    LET verdict == can_request_coffee(u) IN
    /\ Cardinality({r \in running : r.op = "request"}) < MaxRunning
    /\ last_request_time' = request_time(u, verdict)
    /\ IF verdict # "ok" THEN
          /\ last' = Op("request", u, NoUser, 0, verdict)
          /\ UNCHANGED running
       ELSE
          /\ last' = Op("request_step", u, NoUser, 0, "checked")
          /\ running' = running \cup
                {Run("request", u,
                     IF waiting_pool # <<>> THEN "pop" ELSE "append", NoUser)}
    /\ UNCHANGED <<waiting_pool, pool_timeout_jobs, timeout_jobs, close_jobs,
                   matches, RaceFrame>>

\* line 71: partner_id = self.waiting_pool.pop(0); IndexError on an empty list
RequestPop(r) ==
    /\ r \in running /\ r.op = "request" /\ r.pc = "pop"
    /\ IF waiting_pool = <<>> THEN
          /\ running' = running \ {r}
          /\ last' = Op("request", r.who, NoUser, 0, "IndexError")
          /\ UNCHANGED waiting_pool
       ELSE
          /\ waiting_pool' = Tail(waiting_pool)
          /\ running' = (running \ {r}) \cup
                {Run("request", r.who,
                     IF Head(waiting_pool) \in pool_timeout_jobs
                     THEN "cancel" ELSE "start", Head(waiting_pool))}
          /\ last' = Op("request_step", r.who, Head(waiting_pool), 0, "popped")
    /\ UNCHANGED <<last_request_time, pool_timeout_jobs, timeout_jobs, close_jobs,
                   matches, RaceFrame>>

\* lines 75-76: remove_job, then del self.pool_timeout_jobs[partner_id];
\* KeyError when the handle has been deleted since the test of line 74
RequestCancel(r) ==
    /\ r \in running /\ r.op = "request" /\ r.pc = "cancel"
    /\ timeout_jobs' = remove_job(timeout_jobs, r.arg)
    /\ IF r.arg \in pool_timeout_jobs THEN
          /\ pool_timeout_jobs' = pool_timeout_jobs \ {r.arg}
          /\ running' = (running \ {r}) \cup {Run("request", r.who, "start", r.arg)}
          /\ last' = Op("request_step", r.who, r.arg, 0, "cancelled")
       ELSE
          /\ UNCHANGED pool_timeout_jobs
          /\ running' = running \ {r}
          /\ last' = Op("request", r.who, r.arg, 0, "KeyError")
    /\ UNCHANGED <<waiting_pool, last_request_time, close_jobs, matches, RaceFrame>>

\* line 79: await self.start_match(user_id, partner_id), no collaborator failing
RequestStart(r) ==
    /\ r \in running /\ r.op = "request" /\ r.pc = "start"
    /\ Len(matches) < MaxMatches
    /\ matches' = start_match_rows(r.who, r.arg, "none")
    /\ close_jobs' = start_match_jobs("none")
    /\ running' = running \ {r}
    /\ last' = Op("request", r.who, r.arg, Len(matches'), "matched")
    /\ UNCHANGED <<waiting_pool, last_request_time, pool_timeout_jobs,
                   timeout_jobs, RaceFrame>>

\* line 86: self.waiting_pool.append(user_id)
RequestAppend(r) ==
    /\ r \in running /\ r.op = "request" /\ r.pc = "append"
    /\ waiting_pool' = Append(waiting_pool, r.who)
    /\ running' = (running \ {r}) \cup {Run("request", r.who, "schedule", NoUser)}
    /\ last' = Op("request_step", r.who, NoUser, 0, "appended")
    /\ UNCHANGED <<last_request_time, pool_timeout_jobs, timeout_jobs, close_jobs,
                   matches, RaceFrame>>

\* lines 89-96: add_once_job and the handle
RequestSchedule(r) ==
    /\ r \in running /\ r.op = "request" /\ r.pc = "schedule"
    /\ timeout_jobs' = add_once_job(timeout_jobs, r.who, TimeoutDelay)
    /\ pool_timeout_jobs' = pool_timeout_jobs \cup {r.who}
    /\ running' = running \ {r}
    /\ last' = Op("request", r.who, NoUser, 0, "waiting")
    /\ UNCHANGED <<waiting_pool, last_request_time, close_jobs, matches, RaceFrame>>

\* the scheduler hands the due coffee_timeout_<user> job to its worker, which
\* runs line 107: if user_id in self.waiting_pool
TimeoutBegin(u) ==
    /\ \E j \in timeout_jobs : j.user = u /\ j.run_at <= now
    /\ ~ \E r \in running : r.op = "timeout" /\ r.who = u
    /\ timeout_jobs' = JobsWithout(timeout_jobs, u)
    /\ running' = running \cup
          {Run("timeout", u, IF InPool(u) THEN "remove" ELSE "cleanup", NoUser)}
    /\ last' = Op("timeout_step", u, NoUser, 0,
                  IF InPool(u) THEN "in_pool" ELSE "not_in_pool")
    /\ UNCHANGED <<waiting_pool, last_request_time, pool_timeout_jobs, close_jobs,
                   matches, RaceFrame>>

\* lines 108-121: self.waiting_pool.remove(user_id), ValueError when the user is
\* no longer in the list; then the notification inside its try block
TimeoutRemove(r, notifyOk) ==
    /\ r \in running /\ r.op = "timeout" /\ r.pc = "remove"
    /\ IF InPool(r.who) THEN
          /\ waiting_pool' = ListRemove(waiting_pool, r.who)
          /\ running' = (running \ {r}) \cup {Run("timeout", r.who, "cleanup", NoUser)}
          /\ last' = Op("timeout_step", r.who, NoUser, 0,
                        IF notifyOk THEN "expired_notified" ELSE "expired_silent")
       ELSE
          /\ UNCHANGED waiting_pool
          /\ running' = running \ {r}
          /\ last' = Op("timeout", r.who, NoUser, 0, "ValueError")
    /\ UNCHANGED <<last_request_time, pool_timeout_jobs, timeout_jobs, close_jobs,
                   matches, RaceFrame>>

\* line 124: if user_id in self.pool_timeout_jobs
TimeoutCleanup(r) ==
    /\ r \in running /\ r.op = "timeout" /\ r.pc = "cleanup"
    /\ IF r.who \in pool_timeout_jobs THEN
          /\ running' = (running \ {r}) \cup {Run("timeout", r.who, "del", NoUser)}
          /\ last' = Op("timeout_step", r.who, NoUser, 0, "has_handle")
       ELSE
          /\ running' = running \ {r}
          /\ last' = Op("timeout", r.who, NoUser, 0, "done")
    /\ UNCHANGED <<waiting_pool, last_request_time, pool_timeout_jobs, timeout_jobs,
                   close_jobs, matches, RaceFrame>>

\* line 125: del self.pool_timeout_jobs[user_id]
TimeoutDel(r) ==
    /\ r \in running /\ r.op = "timeout" /\ r.pc = "del"
    /\ pool_timeout_jobs' = pool_timeout_jobs \ {r.who}
    /\ running' = running \ {r}
    /\ last' = Op("timeout", r.who, NoUser, 0,
                  IF r.who \in pool_timeout_jobs THEN "done" ELSE "KeyError")
    /\ UNCHANGED <<waiting_pool, last_request_time, timeout_jobs, close_jobs,
                   matches, RaceFrame>>

RaceInit == MatchInit

RaceNext ==
    \/ \E u \in Users : RequestBegin(u)
    \/ \E r \in running : RequestPop(r)
    \/ \E r \in running : RequestCancel(r)
    \/ \E r \in running : RequestStart(r)
    \/ \E r \in running : RequestAppend(r)
    \/ \E r \in running : RequestSchedule(r)
    \/ \E u \in Users : TimeoutBegin(u)
    \/ \E r \in running, ok \in BOOLEAN : TimeoutRemove(r, ok)
    \/ \E r \in running : TimeoutCleanup(r)
    \/ \E r \in running : TimeoutDel(r)
    \/ Tick

RaceSpec == RaceInit /\ [][RaceNext]_vars

\* ------------------------------------------ close_poll_task, step by step
\* close_poll_task reads is_active (lines 78-84) and writes it later (line 88)
\* with no transaction around the two; its executions run on the scheduler's
\* worker threads and interleave.

\* lines 78-84: the row is read and the guards are evaluated; caller is "job"
\* for the scheduled job and "call" for any other execution
close_poll_guard(caller, ts) ==
    LET poll_id == get_poll_by_ts(ts) IN
    /\ ~ \E r \in running : r.op = "close_poll" /\ r.who = caller
    /\ IF poll_id = 0 THEN
          /\ last' = PollOp("close_poll_guard", caller, ts, 0, "no_poll")
          /\ UNCHANGED running
       ELSE IF is_active(poll_id) = 0 THEN
          /\ last' = PollOp("close_poll_guard", caller, ts, 0, "already_closed")
          /\ UNCHANGED running
       ELSE
          /\ last' = PollOp("close_poll_guard", caller, ts, 0, "open")
          /\ running' = running \cup {Run("close_poll", caller, "close", ts)}
    /\ UNCHANGED <<polls, votes, poll_messages, next_ts, voting, results>>
    /\ UNCHANGED <<matchVars, limiterVars, repoVars>>

ClosePollJobBegin(ts) ==
    /\ ts \in poll_jobs
    /\ poll_jobs' = poll_jobs \ {ts}
    /\ close_poll_guard("job", ts)

ClosePollCallBegin(ts) ==
    /\ ts < next_ts
    /\ UNCHANGED poll_jobs
    /\ close_poll_guard("call", ts)

\* lines 86-130: the counts are read, the row is closed, the poll message is
\* deleted and the results are posted
ClosePollFinish(r, fail) ==
    /\ r \in running /\ r.op = "close_poll" /\ r.pc = "close"
    /\ LET ts == r.arg
           poll_id == get_poll_by_ts(ts)
           counts == [i \in 1..polls[poll_id].nopts |->
                         get_poll_results(poll_id, i - 1)]
       IN /\ polls' = close_poll(poll_id)
          /\ poll_messages' = IF message_deleted(fail)
                              THEN poll_messages \ {ts} ELSE poll_messages
          /\ results' = IF results_posted(fail)
                        THEN Append(results, results_message(ts, counts))
                        ELSE results
          /\ last' = PollOp("close_poll_finish", r.who, ts, 0,
                            IF results_posted(fail)
                            THEN "closed" ELSE "closed_unannounced")
    /\ running' = running \ {r}
    /\ UNCHANGED <<votes, poll_jobs, next_ts, voting>>
    /\ UNCHANGED <<matchVars, limiterVars, repoVars>>

ClosureInit == TallyInit

ClosureNext ==
    \/ \E ts \in 1..MaxPolls : ClosePollJobBegin(ts)
    \/ \E ts \in 1..MaxPolls : ClosePollCallBegin(ts)
    \/ \E r \in running, fail \in PostFail : ClosePollFinish(r, fail)

ClosureSpec == ClosureInit /\ [][ClosureNext]_vars

\* -------------------------------------------- poll lifecycle, storage failing
\* database.py catches every exception of a query and returns None (a read) or
\* False (a write); close_poll_task does not look at what close_poll returns.

StorageFail == {"get_poll_by_ts", "close_poll"}

\* the scheduler runs the close_<message_ts> job and the database call named by
\* dbfail fails: get_poll_by_ts returns None and the task returns at line 80;
\* close_poll returns False and the task goes on to delete and to post
ClosePollJobStorage(ts, dbfail) ==
    LET poll_id == get_poll_by_ts(ts) IN
    /\ ts \in poll_jobs
    /\ poll_jobs' = poll_jobs \ {ts}
    /\ IF dbfail = "get_poll_by_ts" \/ poll_id = 0 THEN
          /\ last' = PollOp("close_poll_job", NoUser, ts, 0, "no_poll")
          /\ UNCHANGED <<poll_messages, results>>
       ELSE IF is_active(poll_id) = 0 THEN
          /\ last' = PollOp("close_poll_job", NoUser, ts, 0, "already_closed")
          /\ UNCHANGED <<poll_messages, results>>
       ELSE
          LET counts == [i \in 1..polls[poll_id].nopts |->
                            get_poll_results(poll_id, i - 1)]
          IN /\ poll_messages' = poll_messages \ {ts}
             /\ results' = Append(results, results_message(ts, counts))
             /\ last' = PollOp("close_poll_job", NoUser, ts, 0, "announced_open")
    /\ UNCHANGED <<polls, votes, next_ts, voting>>
    /\ UNCHANGED <<matchVars, limiterVars, raceVars, repoVars>>

LifecycleNext ==
    \/ CommandNext
    \/ \E ts \in 1..MaxPolls, dbfail \in StorageFail : ClosePollJobStorage(ts, dbfail)

LifecycleSpec == PollInit /\ [][LifecycleNext]_vars

\* ------------------------------------------- the cooldown message, in ticks
\* In CooldownSpec the clock now counts ticks of 1/TicksPerSecond second.

\* the clock runs a little past the five minutes of the cooldown
MaxSeconds == 310

\* timedelta(minutes=5)
CooldownTicks == CooldownMinutes * 60 * TicksPerSecond

\* can_request_coffee(user_id): what it returns, and the number of minutes in
\* its cooldown message
CanRequestCoffee(u) ==
    LET inCooldown == /\ last_request_time[u] # NoTime
                      /\ now - last_request_time[u] < CooldownTicks
    IN /\ last' = [op |-> "can_request", user |-> u, partner |-> NoUser,
                   match |-> 0,
                   opt |-> IF inCooldown
                           THEN Remaining(now - last_request_time[u]) ELSE 0,
                   minutes |-> 0,
                   result |-> IF inCooldown THEN "cooldown"
                              ELSE IF InPool(u) THEN "already" ELSE "ok"]
       /\ UNCHANGED <<matchVars, pollVars, limiterVars, raceVars, repoVars>>

CooldownTick ==
    /\ now < MaxSeconds * TicksPerSecond
    /\ now' = now + 1
    /\ last' = Op("tick", NoUser, NoUser, 0, "none")
    /\ UNCHANGED <<waiting_pool, last_request_time, pool_timeout_jobs, timeout_jobs,
                   close_jobs, matches, admin_channel, pollVars, limiterVars,
                   raceVars, repoVars>>

\* a user has just asked for a coffee and waits in the pool, the timeout job
\* scheduled five minutes ahead; the other user has never asked
CooldownInit ==
    /\ running = {}
    /\ NoRepo
    /\ NoPolls
    /\ NoLimiter
    /\ now = 0
    /\ \E u \in Users :
          /\ waiting_pool = <<u>>
          /\ last_request_time = [x \in Users |-> IF x = u THEN 0 ELSE NoTime]
          /\ pool_timeout_jobs = {u}
          /\ timeout_jobs = {[user |-> u, run_at |-> CooldownTicks]}
          /\ last = Op("request", u, NoUser, 0, "waiting")
    /\ close_jobs = {}
    /\ matches = <<>>
    /\ admin_channel = TRUE

CooldownNext ==
    \/ \E u \in Users : CanRequestCoffee(u)
    \/ CooldownTick

CooldownSpec == CooldownInit /\ [][CooldownNext]_vars

\* ------------------------------------------------ transaction(db_client)
\* The context manager of src/src/core/transaction.py, one statement at a
\* time; what get_connection, the body of the with block, commit, rollback and
\* close do is an input of the step that calls them.

\* at most this many uses of the context manager follow one another
MaxUses == 4

\* the statement a use of the context manager has just executed and how it went
TxOp(step, ok) == Op(step, NoUser, NoUser, 0, IF ok THEN "ok" ELSE "raises")

TxFrame == <<matchVars, pollVars, limiterVars, raceVars, stats, stats_calls>>

\* what the body of the with block does: it returns, raises an Exception, or
\* raises a BaseException that is no Exception (KeyboardInterrupt, SystemExit,
\* asyncio.CancelledError)
BodyOutcomes == {"returns", "Exception", "BaseException"}

\* lines 23-25: conn = None; conn = db_client.get_connection()
TxEnter(connects) ==
    /\ tx.pc = "idle"
    /\ tx.uses < MaxUses
    /\ tx' = [pc |-> IF connects THEN "body" ELSE "except",
              conn |-> IF connects THEN "open" ELSE "none",
              body |-> "none",
              failed |-> IF connects THEN "none" ELSE "get_connection",
              commits |-> 0, rollbacks |-> 0, closes |-> 0, raised |-> "none",
              uses |-> tx.uses + 1]
    /\ last' = TxOp("get_connection", connects)
    /\ UNCHANGED TxFrame

\* line 26: yield conn; an Exception of the body is thrown into the generator
\* and caught at line 29, a BaseException passes the except clause
TxBody(outcome) ==
    /\ tx.pc = "body"
    /\ tx' = [tx EXCEPT !.body = outcome,
                        !.failed = IF outcome = "returns" THEN "none" ELSE "body",
                        !.raised = IF outcome = "BaseException"
                                   THEN "BaseException" ELSE "none",
                        !.pc = CASE outcome = "returns" -> "commit"
                                 [] outcome = "Exception" -> "except"
                                 [] OTHER -> "finally"]
    /\ last' = Op("body", NoUser, NoUser, 0, outcome)
    /\ UNCHANGED TxFrame

\* line 27: conn.commit()
TxCommit(ok) ==
    /\ tx.pc = "commit"
    /\ tx' = [tx EXCEPT !.commits = IF ok THEN @ + 1 ELSE @,
                        !.failed = IF ok THEN "none" ELSE "commit",
                        !.pc = IF ok THEN "finally" ELSE "except"]
    /\ last' = TxOp("commit", ok)
    /\ UNCHANGED TxFrame

\* lines 29-33: if conn: conn.rollback(); raise DatabaseError(...); an exception
\* of rollback leaves the handler before the raise statement
tx_except(rollbackOk) ==
    [tx EXCEPT !.rollbacks = IF tx.conn # "none" THEN @ + 1 ELSE @,
               !.raised = IF tx.conn # "none" /\ ~rollbackOk
                          THEN "rollback_error" ELSE "DatabaseError",
               !.pc = "finally"]

TxExcept(rollbackOk) ==
    /\ tx.pc = "except"
    /\ tx' = tx_except(rollbackOk)
    /\ last' = TxOp("except", rollbackOk)
    /\ UNCHANGED TxFrame

\* lines 34-36: if conn: conn.close(); an exception of close replaces the one
\* that was on its way
TxFinally(closeOk) ==
    /\ tx.pc = "finally"
    /\ tx' = [tx EXCEPT !.closes = IF tx.conn # "none" THEN @ + 1 ELSE @,
                        !.conn = IF tx.conn # "none" THEN "closed" ELSE @,
                        !.raised = IF tx.conn # "none" /\ ~closeOk
                                   THEN "close_error" ELSE @,
                        !.pc = "done"]
    /\ last' = TxOp("finally", closeOk)
    /\ UNCHANGED TxFrame

\* the with statement is left; the next use starts from scratch
TxLeave ==
    /\ tx.pc = "done"
    /\ tx' = [tx EXCEPT !.pc = "idle"]
    /\ last' = TxOp("leave", TRUE)
    /\ UNCHANGED TxFrame

TxNext ==
    \/ \E connects \in BOOLEAN : TxEnter(connects)
    \/ \E outcome \in BodyOutcomes : TxBody(outcome)
    \/ \E ok \in BOOLEAN : TxCommit(ok)
    \/ \E ok \in BOOLEAN : TxExcept(ok)
    \/ \E ok \in BOOLEAN : TxFinally(ok)
    \/ TxLeave

TxSpec == MatchInit /\ [][TxNext]_vars

\* ------------------------------------------ UserChallengeStatsRepository
\* increment_total and add_points read the row with get_or_create and write the
\* new value with _update_fields, each on a connection of its own; the calls
\* of several workers interleave between the two. increment_completed is
\* increment_total on another column.

MaxStatsCalls == 2

Workers == {"w1", "w2"}

PointValues == {1, 2}

StatsOps == {"increment_total", "add_points"}

StatsFrame == <<matchVars, pollVars, limiterVars, tx>>

\* the column an operation reads and writes
stats_field(op) == IF op = "increment_total" THEN "total_challenges" ELSE "total_points"

\* lines 28-42: the row inserted when the SELECT found none
zero_row == [total_challenges |-> 0, total_points |-> 0]

\* get_or_create(user_id): the table after it and the dict it returns; when the
\* database raises, the table is as it was and the dict holds zeros
get_or_create(table, user_id, dbOk) ==
    IF ~dbOk THEN [table |-> table, row |-> zero_row]
    ELSE IF table[user_id].total_challenges = NoRow
         THEN [table |-> [table EXCEPT ![user_id] = zero_row], row |-> zero_row]
         ELSE [table |-> table, row |-> table[user_id]]

\* _update_fields(user_id, {field: value}): UPDATE ... WHERE user_id = ?; an
\* exception is logged and swallowed, a missing row is not an error
update_fields(table, user_id, field, value, dbOk) ==
    IF ~dbOk \/ table[user_id].total_challenges = NoRow THEN table
    ELSE [table EXCEPT ![user_id] =
             IF field = "total_challenges"
             THEN [@ EXCEPT !.total_challenges = value]
             ELSE [@ EXCEPT !.total_points = value]]

\* lines 82-83 and 88-89: stats = get_or_create(user_id) and the new value
StatsRead(w, user_id, op, points, dbOk) ==
    LET got == get_or_create(stats, user_id, dbOk)
        read == IF op = "increment_total" THEN got.row.total_challenges
                ELSE got.row.total_points
        new == read + (IF op = "increment_total" THEN 1 ELSE points)
    IN /\ \A r \in running : r.who # w
       /\ stats_calls[user_id].begun < MaxStatsCalls
       /\ stats' = got.table
       /\ running' = running \cup
             {Run(op, w, "update", [user |-> user_id, value |-> new,
                                    points |-> IF op = "increment_total" THEN 0 ELSE points])}
       /\ stats_calls' = [stats_calls EXCEPT
                             ![user_id].begun = @ + 1,
                             ![user_id].failures = IF dbOk THEN @ ELSE @ + 1]
       /\ last' = Op(op, user_id, NoUser, read, IF dbOk THEN "read" ELSE "read_failed")
       /\ UNCHANGED StatsFrame

\* lines 84 and 90: _update_fields(user_id, {...}), then the call returns
StatsWrite(r, dbOk) ==
    /\ r \in running
    /\ r.op \in StatsOps /\ r.pc = "update"
    /\ stats' = update_fields(stats, r.arg.user, stats_field(r.op), r.arg.value, dbOk)
    /\ running' = running \ {r}
    /\ stats_calls' = [stats_calls EXCEPT
                          ![r.arg.user].increments =
                              IF r.op = "increment_total" THEN @ + 1 ELSE @,
                          ![r.arg.user].points = @ + r.arg.points,
                          ![r.arg.user].failures = IF dbOk THEN @ ELSE @ + 1]
    /\ last' = Op(r.op, r.arg.user, NoUser, r.arg.value,
                  IF dbOk THEN "written" ELSE "write_failed")
    /\ UNCHANGED StatsFrame

StatsInit == MatchInit

StatsNext ==
    \/ \E w \in Workers, u \in Users, op \in StatsOps, points \in PointValues,
          dbOk \in BOOLEAN : StatsRead(w, u, op, points, dbOk)
    \/ \E r \in running, dbOk \in BOOLEAN : StatsWrite(r, dbOk)

StatsSpec == StatsInit /\ [][StatsNext]_vars

\* ------------------------------------------------------------------ claims

NoDuplicates(s) == \A i, j \in 1..Len(s) : i # j => s[i] # s[j]

HasTimeoutJob(u) == \E j \in timeout_jobs : j.user = u

InCooldown(u) == last_request_time[u] # NoTime /\ now - last_request_time[u] < 5

\* C1: in every reachable state no user identifier appears in the waiting pool
\* more than once.
C1_PoolNoDuplicates == NoDuplicates(waiting_pool)

\* the same user has asked again while waiting and was turned away
C1_Witness ==
    /\ last.op = "request" /\ last.result = "already"
    /\ InPool(last.user)

\* C2: when A waits and another user B, not in cooldown, requests a match and
\* the request returns, the request is answered "matched" with partner A, a new
\* active Match row holds exactly {A, B}, A has left the pool, A's timeout job is
\* no longer scheduled and A's handle is gone; and the firing of A's original
\* timeout right after that match changes nothing and notifies nobody.
C2_MatchStep(A, B) ==
    (/\ last'.op = "request" /\ last'.user = B /\ last'.result # "error"
     /\ InPool(A) /\ A # B /\ ~InCooldown(B))
    => (/\ last'.result = "matched" /\ last'.partner = A
        /\ Len(matches') = Len(matches) + 1
        /\ LET m == matches'[Len(matches')] IN
              /\ {m.user1, m.user2} = {A, B}
              /\ m.status = "active"
        /\ ~ \E i \in 1..Len(waiting_pool') : waiting_pool'[i] = A
        /\ A \notin pool_timeout_jobs'
        /\ ~ \E j \in timeout_jobs' : j.user = A)

C2_LateStep(A) ==
    (/\ last.op = "request" /\ last.result = "matched" /\ last.partner = A
     /\ last'.op = "late_timeout" /\ last'.user = A)
    => (/\ last'.result = "noop"
        /\ UNCHANGED <<waiting_pool, last_request_time, pool_timeout_jobs,
                       timeout_jobs, close_jobs, matches>>)

C2_MatchingCorrect ==
    [][\A A \in Users : C2_LateStep(A) /\ \A B \in Users : C2_MatchStep(A, B)]_vars

C2_Witness ==
    /\ last.op = "request" /\ last.result = "matched"
    /\ last.partner \in Users /\ last.partner # last.user
    /\ Len(matches) >= 1

\* C3: a request made less than 5 minutes after the user's last accepted request
\* is answered with the cooldown message and changes neither the pool nor the
\* matches; a request made 5 minutes or more after it (or a first request) is
\* not answered with the cooldown message.
C3_Step(u) ==
    (last'.op = "request" /\ last'.user = u)
    => (/\ InCooldown(u)
           => (/\ last'.result = "cooldown"
               /\ waiting_pool' = waiting_pool
               /\ matches' = matches)
        /\ ~InCooldown(u) => last'.result # "cooldown")

C3_Cooldown == [][\A u \in Users : C3_Step(u)]_vars

C3_Witness ==
    /\ last.op = "request" /\ last.result = "cooldown"
    /\ now - last_request_time[last.user] \in 1..4

\* C4: no match is started between a user and themselves: every Match row, every
\* pair handed to start_match and every pair joined by the join_coffee button
\* has two different users.
C4_NoSelfMatch ==
    /\ \A i \in 1..Len(matches) : matches[i].user1 # matches[i].user2
    /\ (last.op = "request" /\ last.partner # NoUser) => last.user # last.partner
    /\ (last.op = "join" /\ last.result = "paired") => last.user # last.partner

\* a user asked again while still waiting, after a match had been made
C4_Witness ==
    /\ Len(matches) >= 1
    /\ last.op = "request" /\ last.result = "already"

\* the vote rows of a user on a poll, the poll a message belongs to
RowsOf(poll_id, user_id) ==
    {v \in votes : v.poll_id = poll_id /\ v.user_id = user_id}

RowsAfter(poll_id, user_id) ==
    {v \in votes' : v.poll_id = poll_id /\ v.user_id = user_id}

IsOpenPoll(ts) == get_poll_by_ts(ts) # 0 /\ polls[get_poll_by_ts(ts)].is_active = 1

IsCloseOp(op) == op \in {"close_poll_job", "close_poll_call"}

C5_VoteStep ==
    LET p == get_poll_by_ts(last'.match)
        u == last'.user
    IN /\ (last'.op = "vote" /\ IsOpenPoll(last'.match) /\ RowsOf(p, u) # {})
          => (/\ last'.result = "already"
              /\ votes' = votes
              /\ voting' = voting
              /\ Cardinality(RowsAfter(p, u)) = 1)
       /\ (last'.op = "vote" /\ IsOpenPoll(last'.match) /\ RowsOf(p, u) = {})
          => (last'.result = "checked" /\ votes' = votes)
       /\ (last'.op = "vote_write")
          => RowsAfter(p, u) = {VoteRow(p, u, last'.opt)}

C6_OneRowPerVoter ==
    \A v1 \in votes, v2 \in votes :
       (v1.poll_id = v2.poll_id /\ v1.user_id = v2.user_id) => v1 = v2

\* two clicks of one user both passed the already-voted check, and the second
\* write has replaced the row of the first
C6_Witness ==
    /\ last.op = "vote_write" /\ last.result = "replaced"
    /\ RowsOf(get_poll_by_ts(last.match), last.user)
          = {VoteRow(get_poll_by_ts(last.match), last.user, last.opt)}

\* the number of users whose vote row on the poll names option i
VotersFor(poll_id, i) ==
    Cardinality({v.user_id : v \in {w \in votes : w.poll_id = poll_id
                                                  /\ w.option_index = i}})

SeqMax(counts) ==
    CHOOSE m \in {counts[k] : k \in 1..Len(counts)} :
       \A k \in 1..Len(counts) : counts[k] <= m

SeqRange(s) == {s[k] : k \in 1..Len(s)}

\* a closing step that announced the results of the poll of message ts
Announces(ts) ==
    /\ IsCloseOp(last'.op) /\ last'.match = ts /\ last'.result = "closed"

\* C7: closing a poll reports for every option index the number of users whose
\* current vote is that option, and lists as winners exactly the options whose
\* count equals the maximum count when that maximum is positive, each once:
\* votes A->0, B->0, C->1 on two options give counts [2,1] and the winner
\* option 0, votes A->0, B->1 give counts [1,1] and both options as winners.
C7_Step(ts) ==
    Announces(ts) =>
       LET p == get_poll_by_ts(ts)
           msg == results'[Len(results')]
       IN /\ Len(results') = Len(results) + 1
          /\ msg.ts = ts
          /\ Len(msg.counts) = polls[p].nopts
          /\ \A i \in 0..(polls[p].nopts - 1) : msg.counts[i + 1] = VotersFor(p, i)
          /\ SeqMax(msg.counts) > 0
                => (/\ msg.kind = "winner"
                    /\ SeqRange(msg.winners)
                          = {i \in 0..(polls[p].nopts - 1) :
                                msg.counts[i + 1] = SeqMax(msg.counts)}
                    /\ Len(msg.winners) = Cardinality(SeqRange(msg.winners)))
          /\ (polls[p].nopts = 2
                /\ votes = {VoteRow(p, "A", 0), VoteRow(p, "B", 0), VoteRow(p, "C", 1)})
                => (msg.counts = <<2, 1>> /\ msg.winners = <<0>>)
          /\ (polls[p].nopts = 2
                /\ votes = {VoteRow(p, "A", 0), VoteRow(p, "B", 1)})
                => (msg.counts = <<1, 1>> /\ msg.winners = <<0, 1>>)

C8_Step(ts) ==
    (Announces(ts) /\ {v \in votes : v.poll_id = get_poll_by_ts(ts)} = {})
    => LET msg == results'[Len(results')]
       IN /\ Len(results') = Len(results) + 1
          /\ msg.ts = ts
          /\ msg.kind = "no_votes"
          /\ msg.winners = <<>>
          /\ \A k \in 1..Len(msg.counts) : msg.counts[k] = 0

C8_NoVotesNoWinner == [][\A ts \in 1..MaxPolls : C8_Step(ts)]_vars

\* a poll of three options without votes has been closed and announced
C8_Witness ==
    /\ IsCloseOp(last.op) /\ last.result = "closed"
    /\ votes = {}
    /\ Len(polls) = 1 /\ polls[1].nopts = 3
    /\ Len(results) = 1 /\ results[1].kind = "no_votes"

ResultsFor(ts) == {k \in 1..Len(results) : results[k].ts = ts}

\* C9: close_poll_task called again on a poll that a call has closed changes
\* nothing and posts nothing: the poll row stays closed, no results message is
\* added, the poll message and the votes are untouched; a call on an open poll
\* makes the one open->closed transition, and no poll ever has more than one
\* results message.
C9_Step(ts) ==
    LET p == get_poll_by_ts(ts) IN
    (IsCloseOp(last'.op) /\ last'.match = ts /\ p # 0)
    => /\ polls[p].is_active = 0
          => (/\ last'.result = "already_closed"
              /\ UNCHANGED <<polls, votes, poll_messages, results, voting>>)
       /\ polls[p].is_active = 1
          => (/\ last'.result \in {"closed", "closed_unannounced"}
              /\ polls'[p].is_active = 0
              /\ Len(results') <= Len(results) + 1)
       /\ Cardinality({k \in 1..Len(results') : results'[k].ts = ts}) <= 1

C11_InvalidPollRejected ==
    [][(/\ last'.op = "create"
        /\ \/ last'.opt < 2 \/ last'.opt > 10
           \/ last'.minutes < 1 \/ last'.minutes > 1440)
       => (/\ last'.result # "started"
           /\ UNCHANGED <<polls, poll_messages, poll_jobs>>)]_vars

\* C12: whatever the interleaving of the vote interactions with the closure of
\* the poll, no vote row is created or overwritten for a poll whose status is
\* closed, and a vote arriving on a closed poll is answered with the poll-ended
\* message.
C12_NoVoteAfterClose ==
    [][/\ \A v \in votes' \ votes : polls[v.poll_id].is_active = 1
       /\ (/\ last'.op = "vote"
           /\ get_poll_by_ts(last'.match) # 0
           /\ polls[get_poll_by_ts(last'.match)].is_active = 0)
          => (last'.result = "ended" /\ votes' = votes)]_vars

\* C13: when opening the conversation or persisting the Match fails while
\* request_coffee pairs the requester with the popped partner, then as the error
\* is raised the waiting pool, the timeout handles, the scheduled timeout jobs
\* and the last-request times equal their values before the call.
C13_FailedMatchRolledBack ==
    [][\A u \in Users, fail \in {"open_conversation", "create"} :
          (RequestCoffee(u, fail) /\ last'.result = "error")
          => UNCHANGED <<waiting_pool, pool_timeout_jobs, timeout_jobs,
                         last_request_time>>]_vars

\* C14: when the language-model call fails while close_match summarises a
\* conversation that has human messages, the closure still completes: the Match
\* is persisted as closed with a summary, the closing notice is posted and the
\* conversation is closed.
C14_SummaryFailureNotFatal ==
    [][\A m \in 1..Len(matches) :
          (CloseMatchJob(m, TRUE, "quick_ask") \/ CloseMatchCall(m, TRUE, "quick_ask"))
          => (/\ matches'[m].status = "closed"
              /\ matches'[m].summary # "none"
              /\ matches'[m].notices = matches[m].notices + 1
              /\ matches'[m].conv = "closed")]_vars

\* C15: a vote interaction on an open poll whose option index is negative or
\* not below the number of options is rejected: it creates and changes no vote
\* row.
C15_BadIndexRejected ==
    [][(/\ last'.op \in {"vote", "vote_write"}
        /\ IsOpenPoll(last'.match)
        /\ \/ last'.opt < 0
           \/ last'.opt >= polls[get_poll_by_ts(last'.match)].nopts)
       => votes' = votes]_vars

\* the recorded requests of a user, no key read as no request
Recorded(lim, u) == IF u \in DOMAIN lim.requests THEN lim.requests[u] ELSE <<>>

\* C16: is_allowed is a sliding window per user: a call is allowed exactly when
\* fewer than max_requests earlier allowed calls of the user lie within the
\* preceding window_seconds; so no window holds more than max_requests allowed
\* calls, the call after them is rejected with the whole seconds left until the
\* oldest of them is window_seconds old, and the user is allowed again then.
C16_Step(u) ==
    (last'.op = "is_allowed" /\ last'.user = u)
    => LET inWindow == history[u].granted
           left == SeqMin(inWindow) + limiter.window_seconds * TicksPerSecond - now
       IN /\ (last'.result = "allowed") <=> (Len(inWindow) < limiter.max_requests)
          /\ last'.result \in {"allowed", "rejected"}
          /\ last'.result = "rejected"
                => (/\ left > 0
                    /\ last'.opt * TicksPerSecond <= left
                    /\ left < (last'.opt + 1) * TicksPerSecond
                    /\ Recorded(limiter', u) = inWindow)
          /\ Len(history'[u].granted) <= limiter.max_requests

C16_SlidingWindow == [][\A u \in Users : C16_Step(u)]_vars

\* the third call within the window of a limiter of two requests was rejected
\* with one second to wait
C16_Witness ==
    /\ last.op = "is_allowed" /\ last.result = "rejected"
    /\ limiter.max_requests = 2
    /\ Len(history[last.user].granted) = 2
    /\ last.opt = 1

\* C17: rate limits are kept per user: for users u # v, is_allowed(u) and
\* reset(u) change neither the recorded requests of v nor the outcome of any
\* later is_allowed(v).
C17_Step(u, v) ==
    (last'.op \in {"is_allowed", "reset"} /\ last'.user = u /\ u # v)
    => /\ (v \in DOMAIN limiter'.requests) = (v \in DOMAIN limiter.requests)
       /\ Recorded(limiter', v) = Recorded(limiter, v)
       /\ \A t \in now..MaxTime :
             /\ is_allowed(limiter', v, t).allowed = is_allowed(limiter, v, t).allowed
             /\ is_allowed(limiter', v, t).wait = is_allowed(limiter, v, t).wait

C17_PerUser == [][\A u \in Users, v \in Users : C17_Step(u, v)]_vars

\* a user at the limit was reset while another user was at the limit too
C17_Witness ==
    /\ last.op = "reset" /\ last.result = "deleted"
    /\ \E v \in Users \ {last.user} :
          /\ Len(Recorded(limiter, v)) = limiter.max_requests
          /\ ~is_allowed(limiter, v, now).allowed

\* C18: after reset(u), whatever u's earlier requests (being at the limit
\* included), u has no recorded request and the next max_requests calls of
\* is_allowed(u) are allowed; reset of a user with no recorded requests changes
\* nothing.
C18_Step(u) ==
    /\ (last'.op = "reset" /\ last'.user = u)
       => (/\ Recorded(limiter', u) = <<>>
           /\ Recorded(limiter, u) = <<>> => limiter' = limiter)
    /\ (last'.op = "is_allowed" /\ last'.user = u
           /\ history[u].calls < limiter.max_requests)
       => last'.result = "allowed"

C18_ResetClears == [][\A u \in Users : C18_Step(u)]_vars

\* a user who was at the limit has just been reset
C18_Witness ==
    /\ last.op = "reset" /\ last.result = "deleted"
    /\ last.opt = limiter.max_requests
    /\ limiter.max_requests = 2
    /\ Recorded(limiter, last.user) = <<>>

\* C19: _timeout_user(u) for a user u in the waiting pool removes u from the
\* pool and clears u's timeout handle, also when the expiry notification fails,
\* and leaves every other waiting user, every other user's handle and all
\* last-request times unchanged.
C19_Step(u) ==
    (last'.op \in {"timeout", "late_timeout"} /\ last'.user = u /\ InPool(u))
    => LET others(x) == x # u
       IN /\ last'.result \in {"expired_notified", "expired_silent"}
          /\ ~ \E i \in 1..Len(waiting_pool') : waiting_pool'[i] = u
          /\ u \notin pool_timeout_jobs'
          /\ waiting_pool' = SelectSeq(waiting_pool, others)
          /\ pool_timeout_jobs' \ {u} = pool_timeout_jobs \ {u}
          /\ last_request_time' = last_request_time

C19_ExpiryFrame == [][\A u \in Users : C19_Step(u)]_vars

\* a waiting user expired and could not be notified, while the other user
\* had a recorded request
C19_Witness ==
    /\ last.op = "timeout" /\ last.result = "expired_silent"
    /\ ~InPool(last.user)
    /\ last.user \notin pool_timeout_jobs
    /\ \E v \in Users \ {last.user} : last_request_time[v] # NoTime

\* C20: a request that is rejected (cooldown or already waiting) returns its
\* message without raising and leaves the waiting pool, the last-request
\* times, the timeout handles and the scheduled jobs unchanged (the cooldown
\* is not restarted); a request of a user in cooldown or in the pool is always
\* rejected so.
C20_Step(u) ==
    (last'.op = "request" /\ last'.user = u)
    => /\ (InCooldown(u) \/ InPool(u)) => last'.result \in {"cooldown", "already"}
       /\ last'.result \in {"cooldown", "already"}
             => UNCHANGED <<waiting_pool, last_request_time, pool_timeout_jobs,
                            timeout_jobs, close_jobs, matches>>

C20_RejectionFrame == [][\A u \in Users : C20_Step(u)]_vars

\* a waiting user asked again during the cooldown, the timeout still pending
C20_Witness ==
    /\ last.op = "request" /\ last.result = "cooldown"
    /\ InPool(last.user)
    /\ HasTimeoutJob(last.user)

\* C21: for every interleaving of _timeout_user(A) with a request_coffee(B) that
\* claims the waiting user A, neither call ends with an exception, and A is never
\* both claimed by the request and told that the wait has expired.
C21_OneOutcomeNoException ==
    [][/\ last'.result \notin RaceErrors
       /\ (last'.op = "timeout_step"
              /\ last'.result \in {"expired_notified", "expired_silent"})
          => ~ \E r \in running' : r.op = "request" /\ r.arg = last'.user]_vars

\* C22: for every interleaving of two executions of close_poll_task for the
\* same poll, at most one results message is posted for the poll.
C22_OneResultsMessage ==
    \A ts \in 1..MaxPolls : Cardinality(ResultsFor(ts)) <= 1

\* C23: whenever start_match has persisted the Match row, a closure job for that
\* match is scheduled, whatever the outcome of the icebreaker generation
\* (quick_ask) and of the greeting message (post_message) that follow.
C23_ActiveMatchHasCloseJob ==
    [][\A u \in Users, fail \in {"none", "quick_ask", "post_message"} :
          (RequestCoffee(u, fail) /\ Len(matches') > Len(matches))
          => \E j \in close_jobs' : j.match = Len(matches')]_vars

\* C24: there is no reachable state with an open poll that has no pending
\* closure job (so every poll persisted as open is eventually closed once the
\* scheduler fires its jobs).
C24_OpenPollHasCloseJob ==
    \A ts \in 1..MaxPolls : IsOpenPoll(ts) => ts \in poll_jobs

C26_FailedCreateLeavesNothing ==
    [][\A u \in Voters, n \in {k \in CommandOptions : k >= 2} :
          CreatePoll(u, TRUE, n, "create_poll")
          => /\ poll_messages' = poll_messages
             /\ poll_jobs' = poll_jobs
             /\ last'.result = "failed"]_vars

\* C27: the rejection checks of request_coffee are applied cooldown first: a
\* user who is in the pool and whose last request is less than 5 minutes old
\* gets the cooldown rejection; the already-waiting rejection is returned only
\* to a user who is in the pool and whose last request is at least 5 minutes old.
C27_Step ==
    \A u \in Users :
       (last'.op = "request" /\ last'.user = u)
       => /\ (InPool(u) /\ InCooldown(u)) => last'.result = "cooldown"
          /\ last'.result = "already"
             => /\ InPool(u)
                /\ last_request_time[u] # NoTime
                /\ now - last_request_time[u] >= 5
          /\ (InPool(u) /\ ~InCooldown(u)) => last'.result = "already"

C27_CooldownFirst == [][C27_Step]_vars

\* a user still in the pool asks again within the cooldown and is answered with
\* the cooldown rejection
C27_Witness ==
    /\ last.op = "request" /\ last.result = "cooldown"
    /\ InPool(last.user)

\* C28: in close_match the Match is persisted as closed before the admin report
\* is sent, and the closing notice is posted before the conversation is closed:
\* a call that sends the report has persisted the closure, a call that closes
\* the conversation has posted the notice; when close_conversation fails the
\* Match is closed, the notice posted, and the exception is logged, not raised.
C28_Step ==
    \A m \in 1..Len(matches) :
       (last'.op \in {"close_job", "close_call"} /\ last'.match = m)
       => /\ matches'[m].reports > matches[m].reports
             => /\ matches'[m].updates > matches[m].updates
                /\ matches'[m].status = "closed"
          /\ (matches[m].conv = "open" /\ matches'[m].conv = "closed")
             => matches'[m].notices > matches[m].notices
          /\ \A h \in BOOLEAN :
                (\/ CloseMatchJob(m, h, "close_conversation")
                 \/ CloseMatchCall(m, h, "close_conversation"))
                => /\ matches'[m].status = "closed"
                   /\ matches'[m].updates > matches[m].updates
                   /\ matches'[m].notices > matches[m].notices
                   /\ matches'[m].conv = matches[m].conv
                   /\ last'.result = "logged_error"

C28_CloseOrder == [][C28_Step]_vars

\* the closure job ran and close_conversation failed: the row is closed, the
\* report and the notice are out, the conversation is still open
C28_Witness ==
    /\ last.op = "close_job" /\ last.result = "logged_error"
    /\ matches[last.match].status = "closed"
    /\ matches[last.match].reports = 1
    /\ matches[last.match].notices = 1
    /\ matches[last.match].conv = "open"

\* C29: when close_poll_task cannot delete the original poll message, the poll
\* is still marked closed and the results message is still posted.
C29_Step ==
    \A ts \in 1..MaxPolls :
       (/\ ClosePollJob(ts, "chat_delete") \/ ClosePollCall(ts, "chat_delete")
        /\ get_poll_by_ts(ts) # 0
        /\ polls[get_poll_by_ts(ts)].is_active = 1)
       => /\ polls'[get_poll_by_ts(ts)].is_active = 0
          /\ Len(results') = Len(results) + 1
          /\ results'[Len(results')].ts = ts
          /\ poll_messages' = poll_messages
          /\ last'.result = "closed"

C29_DeleteFailureNotFatal == [][C29_Step]_vars

\* the job has closed the poll and posted the results while the poll message,
\* which could not be deleted, is still in the channel
C29_Witness ==
    /\ last.op = "close_poll_job" /\ last.result = "closed"
    /\ last.match \in poll_messages
    /\ polls[get_poll_by_ts(last.match)].is_active = 0
    /\ Cardinality(ResultsFor(last.match)) = 1

\* C30: for every sequence or interleaving of vote interactions of one user on
\* one open poll, at most one is acknowledged as recorded and the stored choice
\* stays that of the first acknowledged vote: no vote row is ever replaced, and
\* a vote is acknowledged only when the user had no row on the poll.
C30_FirstVoteStands ==
    [][/\ \A v \in votes : v \in votes'
       /\ (last'.op = "vote_write" /\ last'.result \in {"recorded", "replaced"})
          => RowsOf(get_poll_by_ts(last'.match), last'.user) = {}]_vars

\* C31: a poll is created only for an admin or owner: a /oylama of a user whose
\* users_info lookup gives a plain member, a response that is not ok, or an
\* exception, posts no poll message, persists no poll row, schedules no closure
\* job and is answered with the admins-only message.
C31_Step ==
    \A u \in Voters, lookup \in {"member", "not_ok", "raises"},
       minutes \in CommandMinutes, n \in CommandOptionCounts, fail \in CreateFail :
       handle_poll_command(u, is_admin(lookup), minutes, n, fail)
       => /\ UNCHANGED <<polls, poll_messages, poll_jobs, next_ts>>
          /\ last'.result = "not_admin"

C31_AdminOnly == [][C31_Step]_vars

\* a well-formed /oylama has been turned away for want of admin rights
C31_Witness ==
    /\ last.op = "create" /\ last.result = "not_admin"
    /\ last.opt = 2 /\ last.minutes = 1
    /\ polls = <<>> /\ poll_messages = {} /\ poll_jobs = {}

\* least integer not below a / b, for a >= 0 and b > 0
CeilDiv(a, b) == (a + b - 1) \div b

\* C32: the number of minutes in a cooldown rejection is an integer between 1
\* and 5, equals ceil((300 - elapsed seconds) / 60) for every elapsed time in
\* [0, 300) seconds, and is the least whole number of minutes after which the
\* cooldown no longer rejects the user.
C32_RemainingMinutes ==
    (last.op = "can_request" /\ last.result = "cooldown")
    => LET elapsed == now - last_request_time[last.user]
           minute == 60 * TicksPerSecond
           limit == 300 * TicksPerSecond
       IN /\ elapsed >= 0 /\ elapsed < limit
          /\ last.opt \in 1..5
          /\ last.opt = CeilDiv(limit - elapsed, minute)
          /\ elapsed + last.opt * minute >= limit
          /\ elapsed + (last.opt - 1) * minute < limit

\* a rejection at the last tick of the cooldown, where the message says 1 minute
C32_Witness ==
    /\ last.op = "can_request" /\ last.result = "cooldown"
    /\ now - last_request_time[last.user] = 300 * TicksPerSecond - 1
    /\ last.opt = 1

\* C33: every use of transaction() ends in one of two ways: when the body
\* finishes normally and the commit succeeds, commit was called once, rollback
\* not at all, and nothing is raised; when the body or the commit raises,
\* rollback was called once and DatabaseError is raised to the caller; in both
\* cases a connection that was obtained has been closed exactly once.
C33_CommitOrRollback ==
    tx.pc = "done"
    => /\ (tx.conn # "none" /\ tx.failed = "none")
          => (tx.commits = 1 /\ tx.rollbacks = 0 /\ tx.raised = "none")
       /\ tx.failed \in {"body", "commit"}
          => (tx.rollbacks = 1 /\ tx.raised = "DatabaseError")
       /\ tx.conn # "none" => tx.closes = 1

PoolUsers == {waiting_pool[i] : i \in 1..Len(waiting_pool)}

\* C34: after every completed request_coffee or timeout firing, including the
\* calls in which scheduling or cancelling a timeout job or starting the match
\* raises, the users holding a timeout handle are exactly the users in the pool.
C34_HandlesMatchPool == pool_timeout_jobs = PoolUsers

\* C35: the waiting pool never holds more than one user: an accepted request
\* that finds the pool non-empty removes the earliest waiting user, so in every
\* reachable state the pool has 0 or 1 entries.
C35_PoolAtMostOne == Len(waiting_pool) <= 1

\* a second pair has been matched: each time the arrival emptied the pool
C35_Witness ==
    /\ last.op = "request" /\ last.result = "matched"
    /\ Len(matches) = 2
    /\ waiting_pool = <<>>

\* C36: for every interleaving of vote interactions with close_poll_task, no
\* vote that was acknowledged as recorded is missing from the announced tally:
\* each announced count of an option is at least the number of vote rows the
\* poll holds for that option.
C36_TallyHasEveryVote ==
    \A k \in 1..Len(results) :
       \A i \in 1..Len(results[k].counts) :
          results[k].counts[i]
             >= get_poll_results(get_poll_by_ts(results[k].ts), i - 1)

\* the first tick from t on at which fewer than max_requests recorded requests
\* of u lie within the window before it
AllowedAgain(lim, u, t) ==
    LET free(T) == Cardinality({k \in 1..Len(Recorded(lim, u)) :
                                  Recorded(lim, u)[k] > T - window(lim)})
                   < lim.max_requests
    IN CHOOSE T \in t..(MaxTime + window(lim)) :
          /\ free(T)
          /\ \A S \in t..(T - 1) : ~free(S)

\* C37: rejected is_allowed calls are not recorded: in every reachable state
\* the recorded request list of each user has at most max_requests entries, and
\* a rejected call adds no entry and leaves the time at which the user is
\* allowed again where it was, so a stream of rejected calls never postpones it.
C37_Step(u) ==
    (last'.op = "is_allowed" /\ last'.user = u /\ last'.result = "rejected")
    => /\ Len(Recorded(limiter', u)) <= Len(Recorded(limiter, u))
       /\ \A k \in 1..Len(Recorded(limiter', u)) :
             \E j \in 1..Len(Recorded(limiter, u)) :
                Recorded(limiter', u)[k] = Recorded(limiter, u)[j]
       /\ AllowedAgain(limiter', u, now) = AllowedAgain(limiter, u, now)
       /\ AllowedAgain(limiter', u, now) > now

C37_RejectedNotRecorded ==
    /\ [](\A u \in Users : Len(Recorded(limiter, u)) <= limiter.max_requests)
    /\ [][\A u \in Users : C37_Step(u)]_vars

\* a call rejected later than every recorded request: recording it would have
\* moved the time the user is allowed again
C37_Witness ==
    /\ last.op = "is_allowed" /\ last.result = "rejected"
    /\ limiter.max_requests = 1 /\ limiter.window_seconds = 2
    /\ Len(Recorded(limiter, last.user)) = 1
    /\ Recorded(limiter, last.user)[1] < now
    /\ AllowedAgain(limiter, last.user, now) = Recorded(limiter, last.user)[1] + window(limiter)

\* C38: for any interleaving of k calls of increment_total (likewise
\* add_points) for the same user, none of them failing, the stored counter ends
\* exactly k higher (higher by the sum of the points): when no call is in
\* progress the row holds the number of calls returned and the sum of their
\* points.
C38_NoLostUpdate ==
    \A u \in Users :
       (/\ stats_calls[u].begun > 0
        /\ stats_calls[u].failures = 0
        /\ \A r \in running : ~(r.op \in StatsOps /\ r.arg.user = u))
       => /\ stats[u].total_challenges = stats_calls[u].increments
          /\ stats[u].total_points = stats_calls[u].points

\* C10: close_match called twice on the same Match performs one active->closed
\* update and sends one admin report and one closing notice (the second call is
\* a no-op): no Match row is ever updated, reported or given a closing notice
\* more than once.
C10_CloseOnce ==
    \A m \in 1..Len(matches) :
       /\ matches[m].updates <= 1
       /\ matches[m].reports <= 1
       /\ matches[m].notices <= 1

====
